---------------------------- MODULE Spec2Model ----------------------------
(***************************************************************************)
(* Model of the authentication and authorization flow of api_yamdb:        *)
(* signup -> confirmation code -> token exchange -> role-gated access      *)
(* (api/views.py, reviews/validators.py).                                  *)
(*                                                                         *)
(* Strings that the code inspects character by character (usernames) are   *)
(* sequences of one-character strings.  The user directory is a set of     *)
(* rows; the HMAC of the token generator is modelled as the (injective)    *)
(* tuple of the values it hashes.                                          *)
(***************************************************************************)
EXTENDS Integers, Sequences, FiniteSets, TLC

\* ------------------------------------------------------------------ bounds
\* longest username string the validator is enumerated on
MaxLen == 2
\* number of primary keys the user table hands out
MaxPk == 3
\* the clock runs from 0 to MaxTime
MaxTime == 2
\* number of confirmation mails that are sent
MaxMail == 2
\* concurrent signup requests in the race specification
NProcs == 2
\* signup calls each concurrent client makes
MaxCalls == 2
\* reviews and comments that are created in the content specification
MaxPosts == 1

\* PASSWORD_RESET_TIMEOUT of the token generator, in clock ticks
Timeout == 1

\* ------------------------------------------------------------ value domains
\* characters matched by \w
WordChars == {"a", "e", "m", "r", "_"}
\* the other characters of the class [\w.@+-]
PunctChars == {".", "@", "+", "-"}
\* characters outside the class (NL is the line feed)
OtherChars == {"!", "NL"}
Alphabet == WordChars \cup PunctChars \cup OtherChars

RECURSIVE StringsOfLen(_)
StringsOfLen(n) ==
    IF n = 0 THEN {<<>>}
    ELSE {Append(s, c) : s \in StringsOfLen(n - 1), c \in Alphabet}

\* every string over Alphabet of length 0..MaxLen
UsernameStrings == UNION {StringsOfLen(n) : n \in 0..MaxLen}

ME == <<"m", "e">>
\* usernames that requests carry: two acceptable ones and three unacceptable
RequestUsernames == {<<"r">>, <<"a">>, ME, <<"a", "!">>, <<>>}
RequestEmails == {"x", "z"}
\* usernames in the URLs and bodies of lookups
UrlUsernames == {<<"r">>, <<"a">>}
Roles == {"user", "moderator", "admin"}
Bios == {"", "hi"}
NoLogin == -1
Anonymous == 0
Pks == 1..MaxPk
Times == 0..MaxTime

Restrict(f, S) == [x \in S |-> f[x]]
Has(data, fld) == fld \in DOMAIN data

\* ------------------------------------------------- reviews/validators.py
\* the index after the longest run of class characters that starts at i
RECURSIVE ClassRunEnd(_, _)
ClassRunEnd(s, i) ==
    IF i <= Len(s) /\ s[i] \in (WordChars \cup PunctChars)
    THEN ClassRunEnd(s, i + 1)
    ELSE i

\* re.search(r'^[\w.@+-]+\Z', value): ^ anchors at index 1, + needs one
\* character, \Z matches only at the very end
re_search(s) ==
    LET j == ClassRunEnd(s, 1)
    IN  j > 1 /\ j = Len(s) + 1

\* the pattern without the reserved-word test
validate_username_no_reserved(value) ==
    re_search(value)

\* TRUE iff validate_username returns without raising ValidationError
validate_username(value) ==
    IF value = ME THEN FALSE
    ELSE re_search(value)

\* ------------------------------------------------------ the user table
\* the password column: set by createsuperuser on row 1, empty on the rows
\* the API inserts
PasswordOf(pk) == IF pk = 1 THEN "pw" ELSE ""

\* a row of reviews.models.User
UserRow(pk, username, email, role, bio) ==
    [pk |-> pk, username |-> username, email |-> email, role |-> role,
     bio |-> bio, password |-> PasswordOf(pk), last_login |-> NoLogin]

\* the unique constraints on username and on email
UniqueOk(us, row) ==
    \A r \in us : r.pk # row.pk =>
        r.username # row.username /\ r.email # row.email

\* User.objects.get(username=..., email=...) as the set of matches
DbGet(us, username, email) ==
    {r \in us : r.username = username /\ r.email = email}

ByPk(us, pk) == {r \in us : r.pk = pk}
ByUsername(us, username) == {r \in us : r.username = username}
TheOne(S) == CHOOSE r \in S : TRUE

\* ------------------------------------------- default_token_generator
\* PasswordResetTokenGenerator._make_hash_value
make_hash_value(user, ts) ==
    <<user.pk, user.password, user.last_login, ts, user.email>>

\* make_token(user) at time t: the timestamp and the keyed hash
make_token(user, t) ==
    [ts |-> t, h |-> make_hash_value(user, t)]

\* a token that does not parse
Garbage == [ts |-> -1, h |-> <<>>]

\* check_token(user, token) at time t
check_token(user, code, t) ==
    /\ code.ts >= 0
    /\ code.h = make_hash_value(user, code.ts)
    /\ ~((t - code.ts) > Timeout)

\* the hashes of every row the table can hold, at every issue time
HashSpace ==
    {<<pk, PasswordOf(pk), NoLogin, ts, e>> :
        pk \in Pks, ts \in Times, e \in RequestEmails}
\* the confirmation codes the exchange is examined on: each hash under its
\* own and under the next timestamp, a wrong hash under each timestamp, and
\* a string that does not parse
CodeSpace ==
    {[ts |-> h[4], h |-> h] : h \in HashSpace}
        \cup {[ts |-> (h[4] + 1) % (MaxTime + 1), h |-> h] : h \in HashSpace}
        \cup {[ts |-> t, h |-> <<>>] : t \in Times}
        \cup {Garbage}

\* ------------------------------------------------------------------ state
VARIABLES
    users,      \* the rows of the user table
    nextpk,     \* the next primary key of the user table
    now,        \* the clock
    outbox,     \* the confirmation mails sent, as a sequence of [to, code]
    tokens,     \* the users (by pk) an access token was issued for
    resp,       \* the request handled last and its response
    req,        \* the signup request each concurrent client has in progress
    reviews,    \* the rows of the review table
    comments,   \* the rows of the comment table
    nextid      \* the next primary key of the review and of the comment table

vars == <<users, nextpk, now, outbox, tokens, resp, req, reviews, comments, nextid>>

Procs == 1..NProcs
\* a client that has no signup request in progress
IdleClient(data) ==
    [pc |-> "idle", data |-> data, user |-> 0, status |-> 0, calls |-> 0,
     mails |-> 0, retried |-> FALSE]
NoData == [username |-> <<>>, email |-> ""]
RaceIdle == UNCHANGED req
ContentIdle == UNCHANGED <<reviews, comments, nextid>>

\* the row manage.py createsuperuser leaves
Superuser == UserRow(1, <<"r">>, "z", "admin", "")

Response(op, cred, status, note) ==
    [op |-> op, cred |-> cred, status |-> status, note |-> note]
NoResp == Response("none", Anonymous, 0, <<>>)

Init ==
    /\ users = {Superuser}
    /\ nextpk = 2
    /\ now = 0
    /\ outbox = <<>>
    /\ tokens = {}
    /\ resp = NoResp
    /\ req = [p \in Procs |-> IdleClient(NoData)]
    /\ reviews = {}
    /\ comments = {}
    /\ nextid = [review |-> 1, comment |-> 1]

\* ------------------------------------------------------------ APISignup
SignupRequests == [username : RequestUsernames, email : RequestEmails]

\* SignUpSerializer(data=request.data).is_valid()
SignUpSerializer_is_valid(data) ==
    /\ Has(data, "username") /\ Has(data, "email")
    /\ validate_username(data.username)

\* the first lookup of User.objects.get_or_create(**validated_data)
get_or_create_lookup(us, data) ==
    DbGet(us, data.username, data.email)

\* the row get_or_create inserts: role and bio take the model's defaults
NewUser(pk, data) ==
    UserRow(pk, data.username, data.email, "user", "")

\* get_or_create without the lookup that follows a failed insert
get_or_create_no_retry(us, data) ==
    {}

\* the lookup get_or_create repeats after the insert raised IntegrityError
get_or_create_retry(us, data) ==
    DbGet(us, data.username, data.email)

\* User.objects.get_or_create(**validated_data), run without interruption;
\* ok is FALSE when the IntegrityError of the insert is raised again after
\* the second lookup found nothing
get_or_create(us, pk, data) ==
    LET found == get_or_create_lookup(us, data)
        row == NewUser(pk, data)
        again == get_or_create_retry(us, data)
    IN  IF found # {}
        THEN [ok |-> TRUE, created |-> FALSE, user |-> TheOne(found), users |-> us]
        ELSE IF UniqueOk(us, row)
        THEN [ok |-> TRUE, created |-> TRUE, user |-> row, users |-> us \cup {row}]
        ELSE IF again # {}
        THEN [ok |-> TRUE, created |-> FALSE, user |-> TheOne(again), users |-> us]
        ELSE [ok |-> FALSE, created |-> FALSE, user |-> row, users |-> us]

\* the code made for the instance before it has a primary key
ConfirmationMail_unsaved(user, t) ==
    [to |-> user.email, code |-> make_token([user EXCEPT !.pk = 0], t)]

\* the mail APISignup.post hands to send_email
ConfirmationMail(user, t) ==
    [to |-> user.email, code |-> make_token(user, t)]

\* APISignup.post on user table us, next key pk, outbox box, at time t
APISignup_handler(us, pk, box, t, data) ==
    IF ~SignUpSerializer_is_valid(data)
    THEN [status |-> 400, users |-> us, nextpk |-> pk, outbox |-> box,
          mails |-> 0, created |-> FALSE]
    ELSE LET g == get_or_create(us, pk, data)
         IN  IF g.ok
             THEN [status |-> 200, users |-> g.users,
                   nextpk |-> IF g.created THEN pk + 1 ELSE pk,
                   outbox |-> Append(box, ConfirmationMail(g.user, t)),
                   mails |-> 1, created |-> g.created]
             ELSE [status |-> 500, users |-> us, nextpk |-> pk, outbox |-> box,
                   mails |-> 0, created |-> FALSE]

\* a signup request is handled
APISignup_post(data) ==
    LET r == APISignup_handler(users, nextpk, outbox, now, data)
    IN  /\ Len(outbox) < MaxMail
        /\ r.created => nextpk <= MaxPk
        /\ users' = r.users
        /\ nextpk' = r.nextpk
        /\ outbox' = r.outbox
        /\ resp' = Response("signup", Anonymous, r.status,
                            [data |-> data, mails |-> r.mails])
        /\ UNCHANGED <<now, tokens>>
        /\ RaceIdle /\ ContentIdle

\* ---------------------------------------------------------- APIGetToken
\* the confirmation codes clients submit here: the mailed ones, an
\* unparsable one, and a code with a valid timestamp over a wrong hash
SubmittedCodes ==
    {outbox[i].code : i \in 1..Len(outbox)}
        \cup {Garbage, [ts |-> now, h |-> <<>>]}

TokenFields == {"username", "confirmation_code"}
TokenBody(username, code) ==
    [username |-> username, confirmation_code |-> code]
\* the request bodies clients send here: every pair, and a body short of
\* each field
TokenRequests ==
    {TokenBody(u, c) : u \in UrlUsernames \cup {ME}, c \in SubmittedCodes}
        \cup {Restrict(TokenBody(<<"a">>, Garbage), F) :
                F \in {{"username"}, {"confirmation_code"}}}

\* TokenSerializer(data=request.data).is_valid()
TokenSerializer_is_valid(data) ==
    Has(data, "username") /\ Has(data, "confirmation_code")

\* a token issue that records the login on the row
for_user_effect_login(us, user, t) ==
    (us \ {user}) \cup {[user EXCEPT !.last_login = t]}

\* what RefreshToken.for_user(user) does to the user table: nothing
for_user_effect(us, user, t) ==
    us

\* the response without the check_token test
APIGetToken_response_unchecked(us, t, data) ==
    IF ~TokenSerializer_is_valid(data)
    THEN [status |-> 400, field |-> "validation", token |-> 0]
    ELSE LET found == ByUsername(us, data.username)
         IN  IF found = {}
             THEN [status |-> 404, field |-> "username", token |-> 0]
             ELSE [status |-> 200, field |-> "token", token |-> TheOne(found).pk]

\* the response of APIGetToken.post: status, the body's field, the user the
\* token asserts (0: no token)
APIGetToken_response(us, t, data) ==
    IF ~TokenSerializer_is_valid(data)
    THEN [status |-> 400, field |-> "validation", token |-> 0]
    ELSE LET found == ByUsername(us, data.username)
         IN  IF found = {}
             THEN [status |-> 404, field |-> "username", token |-> 0]
             ELSE IF check_token(TheOne(found), data.confirmation_code, t)
             THEN [status |-> 200, field |-> "token", token |-> TheOne(found).pk]
             ELSE [status |-> 400, field |-> "confirmation_code", token |-> 0]

\* a token request is handled
APIGetToken_post(data) ==
    LET r == APIGetToken_response(users, now, data)
    IN  /\ resp' = Response("token", Anonymous, r.status,
                            [data |-> IF r.token # 0 THEN data ELSE <<>>,
                             token |-> r.token, field |-> r.field,
                             repeat |-> resp.op = "token" /\ resp.status = 200
                                            /\ resp.note.data = data])
        /\ tokens' = IF r.token # 0 THEN tokens \cup {r.token} ELSE tokens
        /\ users' = IF r.token # 0
                    THEN for_user_effect(users, TheOne(ByPk(users, r.token)), now)
                    ELSE users
        /\ UNCHANGED <<nextpk, now, outbox>>
        /\ RaceIdle /\ ContentIdle

\* ------------------------------------------------------------ the clock
Tick ==
    /\ now < MaxTime
    /\ now' = now + 1
    /\ resp' = NoResp
    /\ UNCHANGED <<users, nextpk, outbox, tokens>>
    /\ RaceIdle /\ ContentIdle

\* ---------------------------------------------------------- UserViewSet
\* request credentials: none, or an access token issued earlier
Creds == {Anonymous} \cup tokens

\* request.user as the set of rows the token's user id resolves to
request_user(us, cred) ==
    IF cred = Anonymous THEN {} ELSE ByPk(us, cred)

\* permissions.IsAdmin
IsAdmin(user) ==
    user.role = "admin"

\* permission_classes = (IsAuthenticated,): 0 when granted
permission_authenticated_only(us, cred) ==
    IF request_user(us, cred) = {} THEN 401 ELSE 0

\* the permission list without IsAdmin
UserViewSet_permission_no_admin(us, cred) ==
    permission_authenticated_only(us, cred)

\* permission_classes = (IsAuthenticated, IsAdmin): 0 when granted
UserViewSet_permission(us, cred) ==
    IF request_user(us, cred) = {} THEN 401
    ELSE IF ~IsAdmin(TheOne(request_user(us, cred))) THEN 403
    ELSE 0

UserFields == {"username", "email", "role", "bio"}
\* every request body the user endpoints are examined on
AllUserPayloads ==
    {Restrict(d, F) :
        d \in [username : {<<"a">>, ME}, email : RequestEmails,
               role : {"admin", "user", "owner"}, bio : {"hi"}],
        F \in SUBSET UserFields}
\* the request bodies clients send here
UserPayloads ==
    {Restrict(d, F) :
        d \in [username : {<<"a">>}, email : {"x"}, role : {"admin", "moderator"}],
        F \in {{}, {"role"}, {"username"}, {"email"}, {"email", "role"}}}

\* UserSerializer(instance, data, partial).is_valid(); pk 0: no instance
UserSerializer_is_valid(us, pk, data, partial) ==
    /\ partial \/ (Has(data, "username") /\ Has(data, "email"))
    /\ Has(data, "username") =>
          /\ validate_username(data.username)
          /\ \A r \in us : r.username = data.username => r.pk = pk
    /\ Has(data, "email") => \A r \in us : r.email = data.email => r.pk = pk
    /\ Has(data, "role") => data.role \in Roles

\* the row after the validated fields are set on it
ApplyFields(row, data) ==
    [f \in DOMAIN row |-> IF Has(data, f) THEN data[f] ELSE row[f]]

Result(status, us) == [status |-> status, users |-> us]

\* UserViewSet.list
UserViewSet_list(us, cred) ==
    LET p == UserViewSet_permission(us, cred)
    IN  IF p # 0 THEN Result(p, us) ELSE Result(200, us)

\* UserViewSet.retrieve
UserViewSet_retrieve(us, cred, username) ==
    LET p == UserViewSet_permission(us, cred)
    IN  IF p # 0 THEN Result(p, us)
        ELSE IF ByUsername(us, username) = {} THEN Result(404, us)
        ELSE Result(200, us)

\* UserViewSet.create with next key pk
UserViewSet_create(us, pk, cred, data) ==
    LET p == UserViewSet_permission(us, cred)
    IN  IF p # 0 THEN Result(p, us)
        ELSE IF ~UserSerializer_is_valid(us, 0, data, FALSE) THEN Result(400, us)
        ELSE Result(201, us \cup {ApplyFields(UserRow(pk, <<>>, "", "user", ""), data)})

\* UserViewSet.partial_update
UserViewSet_partial_update(us, cred, username, data) ==
    LET p == UserViewSet_permission(us, cred)
        found == ByUsername(us, username)
    IN  IF p # 0 THEN Result(p, us)
        ELSE IF found = {} THEN Result(404, us)
        ELSE IF ~UserSerializer_is_valid(us, TheOne(found).pk, data, TRUE)
        THEN Result(400, us)
        ELSE Result(200, (us \ found) \cup {ApplyFields(TheOne(found), data)})

\* UserViewSet.destroy
UserViewSet_destroy(us, cred, username) ==
    LET p == UserViewSet_permission(us, cred)
        found == ByUsername(us, username)
    IN  IF p # 0 THEN Result(p, us)
        ELSE IF found = {} THEN Result(404, us)
        ELSE Result(204, us \ found)

\* serializer.save() without the role argument
saved_role_from_body(user, data) ==
    IF Has(data, "role") THEN data.role ELSE user.role

\* the role serializer.save(role=request.user.role) stores
saved_role(user, data) ==
    user.role

\* UserViewSet.get_current_user_info
get_current_user_info(us, cred, method, data) ==
    LET p == permission_authenticated_only(us, cred)
        me == request_user(us, cred)
    IN  IF p # 0 THEN Result(p, us)
        ELSE IF method = "GET" THEN Result(200, us)
        ELSE IF ~UserSerializer_is_valid(us, cred, data, TRUE) THEN Result(400, us)
        ELSE Result(200,
                (us \ me) \cup
                    {[ApplyFields(TheOne(me), data)
                        EXCEPT !.role = saved_role(TheOne(me), data)]})

\* a request to one of the user endpoints is handled
UsersList(cred) ==
    LET r == UserViewSet_list(users, cred)
    IN  /\ resp' = Response("users_list", cred, r.status, <<>>)
        /\ UNCHANGED <<users, nextpk, now, outbox, tokens>>
        /\ RaceIdle /\ ContentIdle

UsersRetrieve(cred, username) ==
    LET r == UserViewSet_retrieve(users, cred, username)
    IN  /\ resp' = Response("users_retrieve", cred, r.status, <<>>)
        /\ UNCHANGED <<users, nextpk, now, outbox, tokens>>
        /\ RaceIdle /\ ContentIdle

UsersCreate(cred, data) ==
    LET r == UserViewSet_create(users, nextpk, cred, data)
    IN  /\ r.status = 201 => nextpk <= MaxPk
        /\ users' = r.users
        /\ nextpk' = IF r.status = 201 THEN nextpk + 1 ELSE nextpk
        /\ resp' = Response("users_create", cred, r.status, <<>>)
        /\ UNCHANGED <<now, outbox, tokens>>
        /\ RaceIdle /\ ContentIdle

UsersPartialUpdate(cred, username, data) ==
    LET r == UserViewSet_partial_update(users, cred, username, data)
    IN  /\ users' = r.users
        /\ resp' = Response("users_patch", cred, r.status, <<>>)
        /\ UNCHANGED <<nextpk, now, outbox, tokens>>
        /\ RaceIdle /\ ContentIdle

UsersDestroy(cred, username) ==
    LET r == UserViewSet_destroy(users, cred, username)
    IN  /\ users' = r.users
        /\ resp' = Response("users_destroy", cred, r.status, <<>>)
        /\ UNCHANGED <<nextpk, now, outbox, tokens>>
        /\ RaceIdle /\ ContentIdle

UsersMe(cred, method, data) ==
    LET r == get_current_user_info(users, cred, method, data)
    IN  /\ method = "GET" => data = <<>>
        /\ users' = r.users
        /\ resp' = Response("me", cred, r.status,
                            [method |-> method,
                             role |-> IF Has(data, "role") THEN data.role ELSE ""])
        /\ UNCHANGED <<nextpk, now, outbox, tokens>>
        /\ RaceIdle /\ ContentIdle

Next ==
    \/ \E data \in SignupRequests : APISignup_post(data)
    \/ \E data \in TokenRequests : APIGetToken_post(data)
    \/ Tick
    \/ \E cred \in Creds : UsersList(cred)
    \/ \E cred \in Creds, username \in UrlUsernames : UsersRetrieve(cred, username)
    \/ \E cred \in Creds, data \in UserPayloads : UsersCreate(cred, data)
    \/ \E cred \in Creds, username \in UrlUsernames, data \in UserPayloads :
            UsersPartialUpdate(cred, username, data)
    \/ \E cred \in Creds, username \in UrlUsernames : UsersDestroy(cred, username)
    \/ \E cred \in Creds, method \in {"GET", "PATCH"}, data \in UserPayloads :
            UsersMe(cred, method, data)

Spec == Init /\ [][Next]_vars

\* ----------------------------------- APISignup under concurrent requests
\* The steps of APISignup.post that read or write the user table, one
\* database statement each, for clients that all sign up with one pair.
AuthIdle == UNCHANGED <<now, tokens, resp>>

\* a pair no row of the table holds the username or the email of
NewPairs(us) ==
    {d \in SignupRequests :
        /\ SignUpSerializer_is_valid(d)
        /\ \A r \in us : r.username # d.username /\ r.email # d.email}

InitRace ==
    /\ users \in {{}, {Superuser}}
    /\ nextpk = Cardinality(users) + 1
    /\ now = 0
    /\ outbox = <<>>
    /\ tokens = {}
    /\ resp = NoResp
    /\ \E d \in NewPairs(users) : req = [p \in Procs |-> IdleClient(d)]
    /\ reviews = {}
    /\ comments = {}
    /\ nextid = [review |-> 1, comment |-> 1]

\* serializer.is_valid(raise_exception=True) of a new request
SignupReceive(p) ==
    /\ req[p].pc \in {"idle", "done"}
    /\ req[p].calls < MaxCalls
    /\ req' = [req EXCEPT ![p].pc =
                              IF SignUpSerializer_is_valid(req[p].data)
                              THEN "get" ELSE "done",
                          ![p].status =
                              IF SignUpSerializer_is_valid(req[p].data)
                              THEN 0 ELSE 400,
                          ![p].calls = @ + 1]
    /\ UNCHANGED <<users, nextpk, outbox>>
    /\ AuthIdle /\ ContentIdle

\* get_or_create: the first SELECT
SignupGet(p) ==
    LET found == get_or_create_lookup(users, req[p].data)
    IN  /\ req[p].pc = "get"
        /\ req' = [req EXCEPT ![p].pc = IF found # {} THEN "send" ELSE "create",
                              ![p].user = IF found # {} THEN TheOne(found).pk ELSE 0]
        /\ UNCHANGED <<users, nextpk, outbox>>
        /\ AuthIdle /\ ContentIdle

\* get_or_create: the INSERT, which the unique constraints may refuse
SignupCreate(p) ==
    LET row == NewUser(nextpk, req[p].data)
    IN  /\ req[p].pc = "create"
        /\ IF UniqueOk(users, row)
           THEN /\ users' = users \cup {row}
                /\ nextpk' = nextpk + 1
                /\ req' = [req EXCEPT ![p].pc = "send", ![p].user = row.pk]
           ELSE /\ req' = [req EXCEPT ![p].pc = "reget", ![p].retried = TRUE]
                /\ UNCHANGED <<users, nextpk>>
        /\ UNCHANGED outbox
        /\ AuthIdle /\ ContentIdle

\* get_or_create: the SELECT after IntegrityError; the error is raised
\* again when it finds nothing
SignupReGet(p) ==
    LET found == get_or_create_retry(users, req[p].data)
    IN  /\ req[p].pc = "reget"
        /\ req' = [req EXCEPT ![p].pc = IF found # {} THEN "send" ELSE "done",
                              ![p].user = IF found # {} THEN TheOne(found).pk ELSE 0,
                              ![p].status = IF found # {} THEN 0 ELSE 500]
        /\ UNCHANGED <<users, nextpk, outbox>>
        /\ AuthIdle /\ ContentIdle

\* make_token, send_email and the 200 response
SignupSend(p) ==
    /\ req[p].pc = "send"
    /\ outbox' = Append(outbox,
                        ConfirmationMail(TheOne(ByPk(users, req[p].user)), now))
    /\ req' = [req EXCEPT ![p].pc = "done", ![p].status = 200, ![p].mails = @ + 1]
    /\ UNCHANGED <<users, nextpk>>
    /\ AuthIdle /\ ContentIdle

NextRace ==
    \E p \in Procs :
        \/ SignupReceive(p)
        \/ SignupGet(p)
        \/ SignupCreate(p)
        \/ SignupReGet(p)
        \/ SignupSend(p)

SpecRace == InitRace /\ [][NextRace]_vars

\* ------------------------------------- ReviewViewSet and CommentsViewSet
\* the titles in the title table, and the title ids requests name
Titles == {1}
TitleIds == {1, 2}
PostIds == 1..MaxPosts
SAFE_METHODS == {"GET"}

\* request bodies of POST: a text, with or without an author field
PostPayloads ==
    {Restrict([text |-> "t", author |-> 1], F) : F \in {{"text"}, {"text", "author"}}}
\* request bodies of PATCH
PatchPayloads == {[text |-> "u"]}

\* a moderator and a plain user next to the superuser, each with a token
ContentUsers ==
    {Superuser,
     UserRow(2, <<"a">>, "x", "moderator", ""),
     UserRow(3, <<"e">>, "y", "user", "")}

InitContent ==
    /\ users = ContentUsers
    /\ nextpk = 4
    /\ now = 0
    /\ outbox = <<>>
    /\ tokens = {r.pk : r \in ContentUsers}
    /\ resp = NoResp
    /\ req = [p \in Procs |-> IdleClient(NoData)]
    /\ reviews = {}
    /\ comments = {}
    /\ nextid = [review |-> 1, comment |-> 1]

\* permissions.IsAuthorOrReadOnly.has_permission
IsAuthorOrReadOnly_has_permission(us, cred, method) ==
    method \in SAFE_METHODS \/ request_user(us, cred) # {}

\* permissions.IsAuthorOrReadOnly.has_object_permission
IsAuthorOrReadOnly_has_object_permission(us, cred, method, obj) ==
    \/ method \in SAFE_METHODS
    \/ obj.author = cred
    \/ TheOne(request_user(us, cred)).role = "moderator"
    \/ TheOne(request_user(us, cred)).role = "admin"

\* ReviewViewSet.get_queryset: 404 unless the title exists
ReviewViewSet_get_queryset(revs, title) ==
    [found |-> title \in Titles, rows |-> {rv \in revs : rv.title = title}]

\* CommentsViewSet.get_queryset: 404 unless the review exists
CommentsViewSet_get_queryset(revs, coms, review) ==
    [found |-> \E rv \in revs : rv.id = review,
     rows |-> {c \in coms : c.parent = review}]

\* the steps of a request for one object: check_permissions, get_object
\* over the queryset, check_object_permissions; 0 when it may proceed
ObjectAccess(us, cred, method, qs, id) ==
    IF ~IsAuthorOrReadOnly_has_permission(us, cred, method) THEN 401
    ELSE IF ~qs.found \/ {o \in qs.rows : o.id = id} = {} THEN 404
    ELSE IF ~IsAuthorOrReadOnly_has_object_permission(
                us, cred, method, TheOne({o \in qs.rows : o.id = id}))
    THEN 403
    ELSE 0

\* the author perform_create stores when the body's author is kept
author_from_body(cred, data) ==
    IF Has(data, "author") THEN data.author ELSE cred

\* ReviewViewSet.perform_create: serializer.save(author=self.request.user, ...)
ReviewViewSet_perform_create_author(cred, data) ==
    cred

\* CommentsViewSet.perform_create: serializer.save(author=self.request.user, ...)
CommentsViewSet_perform_create_author(cred, data) ==
    cred

PostResult(status, revs, coms) ==
    [status |-> status, reviews |-> revs, comments |-> coms]

\* GET on the list (id = 0) or on one object of a viewset with queryset qs
ViewSet_read(us, cred, qs, id, revs, coms) ==
    IF id = 0
    THEN PostResult(IF qs.found THEN 200 ELSE 404, revs, coms)
    ELSE LET a == ObjectAccess(us, cred, "GET", qs, id)
         IN  PostResult(IF a = 0 THEN 200 ELSE a, revs, coms)

\* ReviewViewSet.create; a second review of one author on a title is refused
ReviewViewSet_create(us, revs, coms, id, cred, title, data) ==
    IF ~IsAuthorOrReadOnly_has_permission(us, cred, "POST")
    THEN PostResult(401, revs, coms)
    ELSE IF title \notin Titles THEN PostResult(404, revs, coms)
    ELSE IF \E rv \in revs : rv.title = title /\ rv.author = cred
    THEN PostResult(400, revs, coms)
    ELSE PostResult(201,
            revs \cup {[id |-> id, title |-> title, text |-> data.text,
                        author |-> ReviewViewSet_perform_create_author(cred, data)]},
            coms)

\* ReviewViewSet.partial_update
ReviewViewSet_partial_update(us, revs, coms, cred, title, id, data) ==
    LET a == ObjectAccess(us, cred, "PATCH", ReviewViewSet_get_queryset(revs, title), id)
    IN  IF a # 0 THEN PostResult(a, revs, coms)
        ELSE PostResult(200,
                {IF rv.id = id THEN [rv EXCEPT !.text = data.text] ELSE rv : rv \in revs},
                coms)

\* ReviewViewSet.destroy; the comments of the review go with it
ReviewViewSet_destroy(us, revs, coms, cred, title, id) ==
    LET a == ObjectAccess(us, cred, "DELETE", ReviewViewSet_get_queryset(revs, title), id)
    IN  IF a # 0 THEN PostResult(a, revs, coms)
        ELSE PostResult(204, {rv \in revs : rv.id # id}, {c \in coms : c.parent # id})

\* CommentsViewSet.create
CommentsViewSet_create(us, revs, coms, id, cred, review, data) ==
    IF ~IsAuthorOrReadOnly_has_permission(us, cred, "POST")
    THEN PostResult(401, revs, coms)
    ELSE IF ~(\E rv \in revs : rv.id = review) THEN PostResult(404, revs, coms)
    ELSE PostResult(201, revs,
            coms \cup {[id |-> id, parent |-> review, text |-> data.text,
                        author |-> CommentsViewSet_perform_create_author(cred, data)]})

\* CommentsViewSet.partial_update
CommentsViewSet_partial_update(us, revs, coms, cred, review, id, data) ==
    LET a == ObjectAccess(us, cred, "PATCH",
                          CommentsViewSet_get_queryset(revs, coms, review), id)
    IN  IF a # 0 THEN PostResult(a, revs, coms)
        ELSE PostResult(200, revs,
                {IF c.id = id THEN [c EXCEPT !.text = data.text] ELSE c : c \in coms})

\* CommentsViewSet.destroy
CommentsViewSet_destroy(us, revs, coms, cred, review, id) ==
    LET a == ObjectAccess(us, cred, "DELETE",
                          CommentsViewSet_get_queryset(revs, coms, review), id)
    IN  IF a # 0 THEN PostResult(a, revs, coms)
        ELSE PostResult(204, revs, {c \in coms : c.id # id})

UsersIdle == UNCHANGED <<users, nextpk, now, outbox, tokens>>
AuthorOf(rows, id) ==
    IF \E o \in rows : o.id = id THEN TheOne({o \in rows : o.id = id}).author ELSE 0

\* a request to the review endpoints is handled
ReviewRead(cred, title, id) ==
    LET r == ViewSet_read(users, cred, ReviewViewSet_get_queryset(reviews, title),
                          id, reviews, comments)
    IN  /\ resp' = Response("review_get", cred, r.status, <<>>)
        /\ UNCHANGED <<reviews, comments, nextid>>
        /\ UsersIdle /\ RaceIdle

ReviewCreate(cred, title, data) ==
    LET r == ReviewViewSet_create(users, reviews, comments, nextid.review, cred,
                                  title, data)
    IN  /\ nextid.review <= MaxPosts
        /\ reviews' = r.reviews
        /\ nextid' = IF r.status = 201 THEN [nextid EXCEPT !.review = @ + 1] ELSE nextid
        /\ resp' = Response("review_post", cred, r.status,
                            [id |-> nextid.review, body |-> DOMAIN data])
        /\ UNCHANGED comments
        /\ UsersIdle /\ RaceIdle

ReviewPartialUpdate(cred, title, id, data) ==
    LET r == ReviewViewSet_partial_update(users, reviews, comments, cred, title, id, data)
    IN  /\ reviews' = r.reviews
        /\ resp' = Response("review_patch", cred, r.status,
                            [author |-> AuthorOf(reviews, id)])
        /\ UNCHANGED <<comments, nextid>>
        /\ UsersIdle /\ RaceIdle

ReviewDestroy(cred, title, id) ==
    LET r == ReviewViewSet_destroy(users, reviews, comments, cred, title, id)
    IN  /\ reviews' = r.reviews
        /\ comments' = r.comments
        /\ resp' = Response("review_delete", cred, r.status,
                            [author |-> AuthorOf(reviews, id)])
        /\ UNCHANGED nextid
        /\ UsersIdle /\ RaceIdle

\* a request to the comment endpoints is handled
CommentRead(cred, review, id) ==
    LET r == ViewSet_read(users, cred,
                          CommentsViewSet_get_queryset(reviews, comments, review),
                          id, reviews, comments)
    IN  /\ resp' = Response("comment_get", cred, r.status, <<>>)
        /\ UNCHANGED <<reviews, comments, nextid>>
        /\ UsersIdle /\ RaceIdle

CommentCreate(cred, review, data) ==
    LET r == CommentsViewSet_create(users, reviews, comments, nextid.comment, cred,
                                    review, data)
    IN  /\ nextid.comment <= MaxPosts
        /\ comments' = r.comments
        /\ nextid' = IF r.status = 201 THEN [nextid EXCEPT !.comment = @ + 1] ELSE nextid
        /\ resp' = Response("comment_post", cred, r.status,
                            [id |-> nextid.comment, body |-> DOMAIN data])
        /\ UNCHANGED reviews
        /\ UsersIdle /\ RaceIdle

CommentPartialUpdate(cred, review, id, data) ==
    LET r == CommentsViewSet_partial_update(users, reviews, comments, cred, review,
                                            id, data)
    IN  /\ comments' = r.comments
        /\ resp' = Response("comment_patch", cred, r.status,
                            [author |-> AuthorOf(comments, id)])
        /\ UNCHANGED <<reviews, nextid>>
        /\ UsersIdle /\ RaceIdle

CommentDestroy(cred, review, id) ==
    LET r == CommentsViewSet_destroy(users, reviews, comments, cred, review, id)
    IN  /\ comments' = r.comments
        /\ resp' = Response("comment_delete", cred, r.status,
                            [author |-> AuthorOf(comments, id)])
        /\ UNCHANGED <<reviews, nextid>>
        /\ UsersIdle /\ RaceIdle

NextContent ==
    \/ \E cred \in Creds, title \in TitleIds, id \in {0} \cup PostIds :
            ReviewRead(cred, title, id)
    \/ \E cred \in Creds, title \in TitleIds, data \in PostPayloads :
            ReviewCreate(cred, title, data)
    \/ \E cred \in Creds, title \in TitleIds, id \in PostIds, data \in PatchPayloads :
            ReviewPartialUpdate(cred, title, id, data)
    \/ \E cred \in Creds, title \in TitleIds, id \in PostIds :
            ReviewDestroy(cred, title, id)
    \/ \E cred \in Creds, review \in PostIds, id \in {0} \cup PostIds :
            CommentRead(cred, review, id)
    \/ \E cred \in Creds, review \in PostIds, data \in PostPayloads :
            CommentCreate(cred, review, data)
    \/ \E cred \in Creds, review \in PostIds, id \in PostIds, data \in PatchPayloads :
            CommentPartialUpdate(cred, review, id, data)
    \/ \E cred \in Creds, review \in PostIds, id \in PostIds :
            CommentDestroy(cred, review, id)

SpecContent == InitContent /\ [][NextContent]_vars

\* =================================================================== claims
RowOf(cred) == TheOne(request_user(users, cred))
MailedCodes == {outbox[i].code : i \in 1..Len(outbox)}

\* C1: for every (username, confirmation_code) pair, in every reachable user
\* table and at every time, the token exchange returns a token iff a user
\* with that username exists and check_token(user, code) holds; with no such
\* user it answers 404 naming 'username', with a failing code 400 naming
\* 'confirmation_code', and neither error carries a token.  A token handed
\* out by a handled request is recorded for the user it asserts.
C1_TokenIffUserAndCode ==
    /\ \A u \in RequestUsernames, c \in CodeSpace :
        LET r == APIGetToken_response(users, now, TokenBody(u, c))
            found == ByUsername(users, u)
            valid == \E user \in found : check_token(user, c, now)
        IN  /\ r.token # 0 <=> valid
            /\ r.token # 0 => r.status = 200 /\ r.token = TheOne(found).pk
            /\ found = {} =>
                  r.status = 404 /\ r.field = "username" /\ r.token = 0
            /\ (found # {} /\ ~valid) =>
                  r.status = 400 /\ r.field = "confirmation_code" /\ r.token = 0
    /\ resp.op = "token" =>
          /\ resp.note.token # 0 <=> resp.status = 200
          /\ resp.note.token # 0 => resp.note.token \in tokens

\* C1 witness: a token request was answered with a token
C1_Witness ==
    /\ resp.op = "token" /\ resp.status = 200
    /\ resp.note.token \in tokens
    /\ resp.note.data.confirmation_code \in MailedCodes

\* the role the row with key pk holds in table us ("" when there is none)
RoleIn(us, pk) ==
    IF ByPk(us, pk) = {} THEN "" ELSE TheOne(ByPk(us, pk)).role

\* C3: for every authenticated caller of any role and every body, with or
\* without a role field, PATCH /users/me leaves the caller's stored role as
\* it was, touches no other row, and on success stores every other
\* submitted field on the caller's row.
C3_MePatchKeepsRole ==
    \A cred \in Creds, data \in AllUserPayloads :
        LET r == get_current_user_info(users, cred, "PATCH", data)
        IN  request_user(users, cred) # {} =>
              /\ r.status \in {200, 400}
              /\ RoleIn(r.users, cred) = RowOf(cred).role
              /\ {row \in r.users : row.pk # cred} = {row \in users : row.pk # cred}
              /\ r.status = 400 => r.users = users
              /\ r.status = 200 =>
                    \A f \in DOMAIN data \ {"role"} :
                        TheOne(ByPk(r.users, cred))[f] = data[f]

\* C3 witness: a non-admin's PATCH /users/me that submitted role = admin and
\* a new email was answered 200; the email is stored and the role is not
C3_Witness ==
    /\ resp.op = "me" /\ resp.note.method = "PATCH" /\ resp.status = 200
    /\ resp.note.role = "admin"
    /\ request_user(users, resp.cred) # {}
    /\ RowOf(resp.cred).role = "user"
    /\ RowOf(resp.cred).email = "x"

NonAdmin(cred) ==
    request_user(users, cred) = {} \/ RowOf(cred).role # "admin"
Denied(r) == r.status \in {401, 403} /\ r.users = users

\* C4: a request by an anonymous, user or moderator caller to /users or
\* /users/{username} (list, create, retrieve, partial update, destroy) is
\* denied and changes nothing; such a request gets past the permission
\* check only for an authenticated caller with role admin; /users/me is
\* open to every authenticated caller and changes no row but the caller's
\* own, whose role it keeps.  So no request of a non-admin changes the role
\* of another user's row.
C4_OnlyAdminManagesUsers ==
    \A cred \in Creds :
        LET byName(username) ==
                {UserViewSet_retrieve(users, cred, username),
                 UserViewSet_destroy(users, cred, username)}
            viewset ==
                {UserViewSet_list(users, cred)}
                    \cup UNION {byName(username) : username \in UrlUsernames \cup {ME}}
                    \cup {UserViewSet_create(users, nextpk, cred, data) :
                            data \in AllUserPayloads}
                    \cup {UserViewSet_partial_update(users, cred, username, data) :
                            username \in UrlUsernames, data \in AllUserPayloads}
            me ==
                {get_current_user_info(users, cred, "GET", <<>>)}
                    \cup {get_current_user_info(users, cred, "PATCH", data) :
                            data \in AllUserPayloads}
        IN  /\ NonAdmin(cred) => \A r \in viewset : Denied(r)
            /\ (\E r \in viewset : r.status \notin {401, 403}) =>
                  request_user(users, cred) # {} /\ RowOf(cred).role = "admin"
            /\ request_user(users, cred) = {} => \A r \in me : Denied(r)
            /\ request_user(users, cred) # {} =>
                  \A r \in me : r.status \notin {401, 403}
            /\ NonAdmin(cred) =>
                  \A r \in viewset \cup me : \A row \in users :
                      row.pk # cred => row \in r.users

\* C4 witness: an authenticated non-admin's PATCH /users/{username} was
\* answered 403 while another user's row is in the table
C4_Witness ==
    /\ resp.op = "users_patch" /\ resp.status = 403
    /\ request_user(users, resp.cred) # {}
    /\ RowOf(resp.cred).role \in {"user", "moderator"}
    /\ \E row \in users : row.pk # resp.cred

InClass(c) == c \in WordChars \cup PunctChars
\* the usernames the claim says are refused
Refused(s) ==
    s = ME \/ Len(s) = 0 \/ \E i \in 1..Len(s) : ~InClass(s[i])

\* validate_username raises exactly on the refused strings
ValidatorRefusesExactly ==
    \A s \in UsernameStrings : validate_username(s) <=> ~Refused(s)

\* C5: validate_username raises for "me", for the empty string and for every
\* string with a character outside [\w.@+-], and for no other string; a
\* signup with such a username is answered with the validation error and
\* creates or fetches no row, issues no code and sends no mail.
C5_BadUsernameRejected ==
    /\ ValidatorRefusesExactly
    /\ \A data \in SignupRequests :
          Refused(data.username) =>
              LET r == APISignup_handler(users, nextpk, outbox, now, data)
              IN  /\ r.status = 400 /\ r.mails = 0 /\ ~r.created
                  /\ r.users = users /\ r.nextpk = nextpk /\ r.outbox = outbox
    /\ (resp.op = "signup" /\ Refused(resp.note.data.username)) =>
          resp.status = 400 /\ resp.note.mails = 0

\* C5 witness: a signup as "me" was answered 400
C5_Witness ==
    /\ resp.op = "signup" /\ resp.note.data.username = ME
    /\ resp.status = 400 /\ resp.note.mails = 0

\* the exchange of (username, code) returns a token
Exchanges(us, t, username, code) ==
    APIGetToken_response(us, t, TokenBody(username, code)).token # 0

\* the fields of row pk that the code is derived from are the same in both
\* tables, or the row is in neither or only one of them
HashFieldsUnmodified(us1, us2, pk) ==
    \A r1 \in ByPk(us1, pk), r2 \in ByPk(us2, pk) :
        /\ r1.email = r2.email
        /\ r1.password = r2.password
        /\ r1.last_login = r2.last_login

\* no step but a handled signup adds a mail, and the exchange changes
\* nothing but the set of issued tokens
ExchangeIsPure ==
    resp'.op = "token" =>
        users' = users /\ outbox' = outbox /\ nextpk' = nextpk /\ now' = now

\* C8 as stated: once an exchange of (username, code) has returned a token,
\* the same exchange returns a token after every step that leaves the
\* code's time window open and the row's hashed fields unmodified; and the
\* exchange modifies neither the code nor the user table.
C8_Original ==
    [][/\ ExchangeIsPure
       /\ (/\ resp.op = "token" /\ resp.status = 200
           /\ now' - resp.note.data.confirmation_code.ts <= Timeout
           /\ HashFieldsUnmodified(users, users', resp.note.token))
          => Exchanges(users', now', resp.note.data.username,
                       resp.note.data.confirmation_code)]_vars

\* C8 amended: whenever the exchange of (username, code) returns a token
\* for a user, it returns one after every step that leaves the code's time
\* window open and that user's row in the table, under the same username
\* and with its hashed fields unmodified; and the exchange modifies
\* neither the code nor the user table.
C8_CodeStaysValid ==
    [][/\ ExchangeIsPure
       /\ \A u \in UrlUsernames, c \in MailedCodes :
            LET pk == APIGetToken_response(users, now, TokenBody(u, c)).token
            IN  (/\ pk # 0
                 /\ now' - c.ts <= Timeout
                 /\ \E row \in ByPk(users', pk) : row.username = u
                 /\ HashFieldsUnmodified(users, users', pk))
                => APIGetToken_response(users', now', TokenBody(u, c)).token = pk]_vars

\* C8 witness: an exchange that had returned a token was repeated with the
\* same username and code, after the clock moved on, and returned a token
C8_Witness ==
    /\ resp.op = "token" /\ resp.status = 200 /\ resp.note.repeat
    /\ now > resp.note.data.confirmation_code.ts

\* the mailed codes check_token accepts for a row now
AcceptedMailed(row) ==
    {c \in MailedCodes : check_token(row, c, now)}

\* C9 as stated: each user has at most one mailed confirmation code that
\* check_token accepts (the code of an earlier signup call is refused once
\* a later call has issued a new one).
C9_Original ==
    \A row \in users : Cardinality(AcceptedMailed(row)) <= 1

\* C9 amended: for each user and each issue time at most one code is
\* accepted; the code a signup call mails is accepted by the exchange at
\* once, and every mailed code made for the row as it is now is accepted,
\* next to the codes of earlier and later calls, until its window elapses.
C9_OneCodePerIssueTime ==
    /\ \A row \in users, ts \in Times :
          Cardinality({c \in CodeSpace : c.ts = ts /\ check_token(row, c, now)}) <= 1
    /\ \A row \in users, c \in MailedCodes :
          (c.h = make_hash_value(row, c.ts) /\ now - c.ts <= Timeout)
              => Exchanges(users, now, row.username, c)
    /\ (resp.op = "signup" /\ resp.status = 200) =>
          /\ Len(outbox) > 0
          /\ Exchanges(users, now, resp.note.data.username,
                       outbox[Len(outbox)].code)

\* C9 witness: two signup calls mailed two different codes to one user and
\* both are accepted now
C9_Witness ==
    /\ resp.op = "signup" /\ resp.status = 200
    /\ \E row \in users :
          /\ row.username = resp.note.data.username
          /\ Cardinality(AcceptedMailed(row)) = 2

\* C2 as stated: a signup call with a valid (username, email) pair
\* succeeds, sends one mail and leaves exactly one row for the pair, and so
\* does the same call made again right after it.
C2_Original ==
    (resp.op = "signup" /\ validate_username(resp.note.data.username)) =>
        LET data == resp.note.data
            again == APISignup_handler(users, nextpk, outbox, now, data)
        IN  /\ resp.status = 200 /\ resp.note.mails = 1
            /\ Cardinality(DbGet(users, data.username, data.email)) = 1
            /\ again.status = 200 /\ again.mails = 1
            /\ again.users = users

\* C10 as stated: the user table never holds two rows with one username or
\* one email, and every signup call is answered 200 or 400.
C10_Original ==
    /\ \A r1, r2 \in users :
          (r1.username = r2.username \/ r1.email = r2.email) => r1 = r2
    /\ resp.op = "signup" => resp.status \in {200, 400}

\* the rows of the pair the concurrent clients sign up with
RaceRows == DbGet(users, req[1].data.username, req[1].data.email)
RECURSIVE SumMails(_)
SumMails(n) == IF n = 0 THEN 0 ELSE req[n].mails + SumMails(n - 1)

\* C6: in every interleaving of the signup requests of clients that all
\* carry one (username, email) pair of a user that does not exist yet (no
\* row holds the username or the email), the table never holds two rows of
\* the pair and holds exactly one as soon as a get_or_create has returned;
\* no request fails, and every completed call has sent one mail of its own.
C6_ConcurrentSignupOneRow ==
    /\ Cardinality(RaceRows) <= 1
    /\ \A p \in Procs :
          /\ req[p].status \in {0, 200}
          /\ req[p].pc \in {"send", "done"} =>
                Cardinality(RaceRows) = 1 /\ req[p].user = TheOne(RaceRows).pk
          /\ req[p].pc \in {"idle", "done"} => req[p].mails = req[p].calls
          /\ req[p].pc \notin {"idle", "done"} => req[p].mails = req[p].calls - 1
    /\ Len(outbox) = SumMails(NProcs)
    /\ \A i \in 1..Len(outbox) : outbox[i].to = req[1].data.email

\* C6 witness: every client has completed its calls with 200, one of them
\* after its insert was refused because a concurrent request had inserted
\* the row first
C6_Witness ==
    /\ \A p \in Procs :
          req[p].pc = "done" /\ req[p].status = 200 /\ req[p].calls = MaxCalls
    /\ \E p \in Procs : req[p].retried
    /\ Cardinality(RaceRows) = 1

\* every POST body the review and comment endpoints are examined on
AllPostPayloads ==
    {Restrict([text |-> "t", author |-> a], F) :
        a \in Pks, F \in {{"text"}, {"text", "author"}}}
Granted(r) == r.status \in {200, 204}
Refusal(r) ==
    r.status \in {401, 403} /\ r.reviews = reviews /\ r.comments = comments
\* the caller is the author, a moderator or an admin
MayWrite(cred, obj) ==
    /\ request_user(users, cred) # {}
    /\ \/ obj.author = cred
       \/ RowOf(cred).role = "moderator"
       \/ RowOf(cred).role = "admin"

\* C7: PATCH and DELETE on an existing review or comment are granted iff
\* the caller is its author, a moderator or an admin, and are refused with
\* no change otherwise; every caller, the anonymous one too, may GET the
\* lists and the objects; the anonymous caller is refused on POST, PATCH
\* and DELETE; and a created review or comment has the requesting user as
\* its author whatever the body says.
C7_AuthorOrReadOnly ==
    \A cred \in Creds :
        LET anon == request_user(users, cred) = {}
        IN  /\ \A rv \in reviews :
                LET writes ==
                        {ReviewViewSet_partial_update(users, reviews, comments, cred,
                                                      rv.title, rv.id, data) :
                            data \in PatchPayloads}
                        \cup {ReviewViewSet_destroy(users, reviews, comments, cred,
                                                    rv.title, rv.id)}
                    qs == ReviewViewSet_get_queryset(reviews, rv.title)
                IN  /\ \A r \in writes :
                        /\ Granted(r) <=> MayWrite(cred, rv)
                        /\ ~Granted(r) => Refusal(r)
                    /\ \A id \in {0, rv.id} :
                        ViewSet_read(users, cred, qs, id, reviews, comments).status = 200
            /\ \A c \in comments :
                LET writes ==
                        {CommentsViewSet_partial_update(users, reviews, comments, cred,
                                                        c.parent, c.id, data) :
                            data \in PatchPayloads}
                        \cup {CommentsViewSet_destroy(users, reviews, comments, cred,
                                                      c.parent, c.id)}
                    qs == CommentsViewSet_get_queryset(reviews, comments, c.parent)
                IN  /\ \A r \in writes :
                        /\ Granted(r) <=> MayWrite(cred, c)
                        /\ ~Granted(r) => Refusal(r)
                    /\ \A id \in {0, c.id} :
                        ViewSet_read(users, cred, qs, id, reviews, comments).status = 200
            /\ \A data \in AllPostPayloads, title \in TitleIds, id \in PostIds :
                LET posts ==
                        {ReviewViewSet_create(users, reviews, comments, nextid.review,
                                              cred, title, data),
                         CommentsViewSet_create(users, reviews, comments,
                                                nextid.comment, cred, id, data)}
                    writes ==
                        {ReviewViewSet_partial_update(users, reviews, comments, cred,
                                                      title, id, [text |-> "u"]),
                         ReviewViewSet_destroy(users, reviews, comments, cred, title, id),
                         CommentsViewSet_partial_update(users, reviews, comments, cred,
                                                        id, id, [text |-> "u"]),
                         CommentsViewSet_destroy(users, reviews, comments, cred, id, id)}
                IN  /\ anon => \A r \in posts \cup writes :
                                  r.status = 401 /\ Refusal(r)
                    /\ \A r \in posts :
                          r.status = 201 =>
                              /\ ~anon
                              /\ \A o \in (r.reviews \ reviews) \cup (r.comments \ comments) :
                                    o.author = cred

\* C7 witness: a moderator who is not the author was granted a PATCH of a
\* comment, whose author was set from the request and not from the body
C7_Witness ==
    /\ resp.op = "comment_patch" /\ resp.status = 200
    /\ resp.note.author # resp.cred
    /\ RowOf(resp.cred).role = "moderator"
    /\ \A c \in comments : c.author = resp.note.author /\ c.author # 1 /\ c.text = "u"

=============================================================================
